---- MODULE Spec2Model ----
(***************************************************************************)
(* PerformanceMetricsV2.py: a Streamlit basketball play tagger.            *)
(*                                                                         *)
(* The script is executed top to bottom once per user interaction (a      *)
(* "run"); st.session_state survives between runs.  The variables below   *)
(* are the keys of st.session_state (plus the file-uploader widget's own  *)
(* value, the messages a run shows and the table it renders); every       *)
(* action is one whole run of the script in which one widget changed or   *)
(* one button was clicked.                                                 *)
(*                                                                         *)
(* Python strings on which the code computes (play and player names:      *)
(* strip(), lower(), ordering) are sequences of code points; strings the  *)
(* code only stores or tests for emptiness are TLA+ strings.              *)
(***************************************************************************)
EXTENDS Integers, Sequences, FiniteSets, TLC

VARIABLES
    plays,             \* st.session_state["plays"]
    log,               \* st.session_state["log"]
    selected_play,     \* st.session_state["selected_play"]
    selected_player,   \* st.session_state["selected_player"]
    opponent,          \* st.session_state["opponent"]
    game_date,         \* st.session_state["game_date"]
    quarter,           \* st.session_state["quarter"]
    new_play,          \* st.session_state["new_play"]
    players,           \* st.session_state["players"]
    new_player_name,   \* st.session_state["new_player_name"]
    new_player_image,  \* st.session_state["new_player_image"]
    player_image,      \* the file held by the uploader widget (key="player_image")
    notice,            \* the message the last run's handler showed (toast/success/warning)
    metrics_df,        \* the per-play table the last run rendered
    trail,             \* history: was the last run a tag (and the log before it) / an undo of it
    explicit_ts        \* history: the explicit timestamp the caller of the last append asked for

vars == <<plays, log, selected_play, selected_player, opponent, game_date, quarter,
          new_play, players, new_player_name, new_player_image, player_image,
          notice, metrics_df, trail, explicit_ts>>

-----------------------------------------------------------------------------
(* Bounds of the model *)

MaxLog == 2
MaxMetricsLog == 3
MaxClockLog == 2
MaxPlayers == 2

-----------------------------------------------------------------------------
(* Python values *)

\* None, where the other values are strings given as code points: a sequence
\* no string equals (code points are never negative).
None == << -1 >>

\* An absent file (the uploader returns None) and an absent optional argument.
NoFile == [name |-> "", bytes |-> ""]
Absent == "absent"

\* bool(s) of a str-or-None value.
Truthy(s) == s # None /\ s # <<>>

IsSpace(c) == c \in {9, 10, 11, 12, 13, 28, 29, 30, 31, 32}

RECURSIVE lstrip(_)
lstrip(s) == IF s # <<>> /\ IsSpace(Head(s)) THEN lstrip(Tail(s)) ELSE s

RECURSIVE rstrip(_)
rstrip(s) ==
    IF s # <<>> /\ IsSpace(s[Len(s)]) THEN rstrip(SubSeq(s, 1, Len(s) - 1)) ELSE s

\* str.strip()
strip(s) == rstrip(lstrip(s))

\* str.lower() on ASCII
lower(s) == [i \in 1..Len(s) |-> IF s[i] \in 65..90 THEN s[i] + 32 ELSE s[i]]

\* Python's str ordering: lexicographic by code point.
RECURSIVE StrLess(_, _)
StrLess(a, b) ==
    IF b = <<>> THEN FALSE
    ELSE IF a = <<>> THEN TRUE
    ELSE IF Head(a) # Head(b) THEN Head(a) < Head(b)
    ELSE StrLess(Tail(a), Tail(b))

\* "%0<width>d" % n
RECURSIVE Digits(_, _)
Digits(n, width) ==
    IF width > 1 /\ n < 10 ^ (width - 1) THEN "0" \o Digits(n, width - 1)
    ELSE ToString(n)

\* str(datetime.date): ISO format YYYY-MM-DD, month and day zero-padded.
DateStr(d) == Digits(d[1], 4) \o "-" \o Digits(d[2], 2) \o "-" \o Digits(d[3], 2)

\* datetime.strftime("%Y-%m-%d %H:%M:%S"): the microseconds are dropped.
strftime(now) ==
    DateStr(now.date) \o " " \o Digits(now.hh, 2) \o ":" \o Digits(now.mm, 2)
        \o ":" \o Digits(now.ss, 2)

Range(s) == {s[i] : i \in 1..Len(s)}

RECURSIVE Gcd(_, _)
Gcd(a, b) == IF b = 0 THEN a ELSE Gcd(b, a % b)

\* The float n / d, given by its value (equal quotients are equal floats for
\* the small counts of a log); n / 0 is kept apart as the undefined value.
Ratio(n, d) ==
    IF d = 0 THEN [num |-> 0, den |-> 0]
    ELSE [num |-> n \div Gcd(n, d), den |-> d \div Gcd(n, d)]

RatLess(x, y) == x.num * y.den < y.num * x.den

-----------------------------------------------------------------------------
(* Utilities of the script *)

points_from_result_two_per_make(result) ==
    IF result \in {"Made 2", "Made 3"} THEN 2 ELSE 0

\* The lookup {"Made 2": 2, "Made 3": 3, "Missed 2": 0, "Missed 3": 0,
\* "Foul": 0}.get(result, 0)
points_from_result(result) ==
    CASE result = "Made 2" -> 2
      [] result = "Made 3" -> 3
      [] result = "Missed 2" -> 0
      [] result = "Missed 3" -> 0
      [] result = "Foul" -> 0
      [] OTHER -> 0

\* add_log(play, result): the log with the new event appended; the context is
\* read from the session state, the timestamp from the clock.
add_log(play, result, now) ==
    Append(log, [timestamp |-> strftime(now),
                 opponent  |-> opponent,
                 game_date |-> DateStr(game_date),
                 quarter   |-> quarter,
                 player    |-> selected_player,
                 play      |-> play,
                 result    |-> result,
                 points    |-> points_from_result(result)])

-----------------------------------------------------------------------------
(* compute_metrics *)

\* groupby("play"): the group keys, in ascending order (groupby sorts its keys).
RECURSIVE SortedKeys(_)
SortedKeys(S) ==
    IF S = {} THEN <<>>
    ELSE LET m == CHOOSE x \in S : \A y \in S : y = x \/ StrLess(x, y)
         IN  <<m>> \o SortedKeys(S \ {m})

\* The keys as groupby(sort=False) would give them: in order of first occurrence.
GroupKeysFirstSeen(log_df) ==
    LET first(p) == CHOOSE i \in 1..Len(log_df) :
                        log_df[i].play = p /\ \A j \in 1..(i - 1) : log_df[j].play # p
        idx == {first(p) : p \in {log_df[i].play : i \in 1..Len(log_df)}}
        RECURSIVE Asc(_)
        Asc(I) == IF I = {} THEN <<>>
                  ELSE LET m == CHOOSE x \in I : \A y \in I : x <= y
                       IN  <<log_df[m].play>> \o Asc(I \ {m})
    IN  Asc(idx)

GroupKeys(log_df) == SortedKeys({log_df[i].play : i \in 1..Len(log_df)})

\* A count of the shots alone, fouls left out.
AttemptsShotsOnly(log_df, play) ==
    Cardinality({i \in 1..Len(log_df) :
                    log_df[i].play = play /\ log_df[i].result # "Foul"})

\* log_df.groupby("play").size()
Attempts(log_df, play) ==
    Cardinality({i \in 1..Len(log_df) : log_df[i].play = play})

RECURSIVE SumPoints(_, _)
SumPoints(log_df, I) ==
    IF I = {} THEN 0
    ELSE LET i == CHOOSE x \in I : TRUE
         IN  log_df[i].points + SumPoints(log_df, I \ {i})

\* log_df.groupby("play")["points"].sum()
Points(log_df, play) ==
    SumPoints(log_df, {i \in 1..Len(log_df) : log_df[i].play = play})

\* log_df[made_mask].groupby("play").size().get(play_name, 0)
made_counts(log_df, play_name) ==
    Cardinality({i \in 1..Len(log_df) :
                    /\ log_df[i].result \in {"Made 2", "Made 3"}
                    /\ log_df[i].play = play_name})

\* log_df[att_mask].groupby("play").size().get(play_name, 0)
shot_attempts(log_df, play_name) ==
    Cardinality({i \in 1..Len(log_df) :
                    /\ log_df[i].result \in {"Made 2", "Made 3", "Missed 2", "Missed 3"}
                    /\ log_df[i].play = play_name})

\* made / atts without the test for atts = 0.
success_rate_unguarded(log_df, play_name) ==
    Ratio(made_counts(log_df, play_name), shot_attempts(log_df, play_name))

\* success_rate(play_name): made / atts over the shot results, 0.0 without any
success_rate(log_df, play_name) ==
    LET made == made_counts(log_df, play_name)
        atts == shot_attempts(log_df, play_name)
    IN  IF atts # 0 THEN Ratio(made, atts) ELSE Ratio(0, 1)

RECURSIVE SumAttempts(_)
SumAttempts(rows) ==
    IF rows = <<>> THEN 0 ELSE Head(rows).Attempts + SumAttempts(Tail(rows))

\* The frame before the sort: one row per group key, in key order.
MetricsRows(log_df) ==
    LET keys == GroupKeys(log_df)
        base == [i \in 1..Len(keys) |->
                    [Play |-> keys[i],
                     Attempts |-> Attempts(log_df, keys[i]),
                     Points |-> Points(log_df, keys[i])]]
        total_attempts == SumAttempts(base)
    IN  [i \in 1..Len(keys) |->
            [Play |-> base[i].Play,
             Attempts |-> base[i].Attempts,
             Points |-> base[i].Points,
             PPP |-> Ratio(base[i].Points, base[i].Attempts),
             Frequency |-> Ratio(base[i].Attempts,
                                 IF total_attempts # 0 THEN total_attempts ELSE 1),
             SuccessRate |-> success_rate(log_df, base[i].Play)]]

\* Row r sorts strictly before row e: higher PPP, or equal PPP and more Attempts.
Before(r, e) ==
    \/ RatLess(e.PPP, r.PPP)
    \/ e.PPP = r.PPP /\ e.Attempts < r.Attempts

RECURSIVE Insert(_, _)
Insert(sorted, r) ==
    IF sorted = <<>> THEN <<r>>
    ELSE IF Before(r, Head(sorted)) THEN <<r>> \o sorted
    ELSE <<Head(sorted)>> \o Insert(Tail(sorted), r)

\* sort_values(by=["PPP", "Attempts"], ascending=[False, False]): a sort on
\* several columns is stable, rows that tie keep the order they had.
RECURSIVE sort_values(_)
sort_values(rows) ==
    IF rows = <<>> THEN <<>>
    ELSE Insert(sort_values(SubSeq(rows, 1, Len(rows) - 1)), rows[Len(rows)])

compute_metrics(log_df) ==
    IF log_df = <<>> THEN <<>> ELSE sort_values(MetricsRows(log_df))

-----------------------------------------------------------------------------
(* Session state and the runs of the script *)

Idle == [op |-> "other", log0 |-> <<>>]

init_state(today) ==
    /\ plays = <<>>
    /\ log = <<>>
    /\ selected_play = None
    /\ selected_player = None
    /\ opponent = ""
    /\ game_date = today
    /\ quarter = ""
    /\ new_play = <<>>
    /\ players = <<>>
    /\ new_player_name = <<>>
    /\ new_player_image = NoFile
    /\ player_image = NoFile
    /\ notice = ""
    /\ metrics_df = <<>>
    /\ trail = Idle
    /\ explicit_ts = Absent

\* A gate that forgets the quarter.
ready_to_tag_without_quarter == opponent # "" /\ game_date # None

\* bool(opponent and game_date and quarter); a date is always true.
ready_to_tag == opponent # "" /\ game_date # None /\ quarter # ""

\* The tagging buttons are drawn, and so can be clicked, only past st.stop()
\* and with both a player and a play selected.
TaggingShown == ready_to_tag /\ Truthy(selected_player) /\ Truthy(selected_play)

\* The end of every run: past st.stop() the per-play table is recomputed from
\* the log and drawn; a run stopped at st.stop() draws none.
Render == metrics_df' = IF ready_to_tag' THEN compute_metrics(log') ELSE <<>>

\* A run whose handler shows no message and appends nothing.  The uploader's
\* file is copied into new_player_image at the start of every run.
Quiet ==
    /\ notice' = ""
    /\ trail' = Idle
    /\ explicit_ts' = Absent
    /\ new_player_image' = player_image'

\* Sidebar: the Opponent text input.
SetOpponent(v) ==
    /\ v # opponent
    /\ opponent' = v
    /\ UNCHANGED <<plays, log, selected_play, selected_player, game_date, quarter,
                   new_play, players, new_player_name, player_image>>
    /\ Quiet
    /\ Render

\* Sidebar: the Game Date input.
SetGameDate(d) ==
    /\ d # game_date
    /\ game_date' = d
    /\ UNCHANGED <<plays, log, selected_play, selected_player, opponent, quarter,
                   new_play, players, new_player_name, player_image>>
    /\ Quiet
    /\ Render

QuarterOptions == {"", "1", "2", "3", "4", "OT"}

\* A quarter change that rewrites the quarter of the events already logged.
SetQuarter_restamps(q) ==
    /\ q \in QuarterOptions
    /\ q # quarter
    /\ quarter' = q
    /\ log' = [i \in 1..Len(log) |-> [log[i] EXCEPT !.quarter = q]]
    /\ UNCHANGED <<plays, selected_play, selected_player, opponent, game_date,
                   new_play, players, new_player_name, player_image>>
    /\ Quiet
    /\ Render

\* Sidebar: the Quarter select box.
SetQuarter(q) ==
    /\ q \in QuarterOptions
    /\ q # quarter
    /\ quarter' = q
    /\ UNCHANGED <<plays, log, selected_play, selected_player, opponent, game_date,
                   new_play, players, new_player_name, player_image>>
    /\ Quiet
    /\ Render

\* Sidebar: the New Play Name text input.
TypeNewPlay(s) ==
    /\ s # new_play
    /\ new_play' = s
    /\ UNCHANGED <<plays, log, selected_play, selected_player, opponent, game_date,
                   quarter, players, new_player_name, player_image>>
    /\ Quiet
    /\ Render

\* add_play(): what it leaves in plays and new_play, and the warning it shows.
add_play ==
    LET raw == strip(new_play)
    IN  IF raw = <<>>
        THEN [plays |-> plays, new_play |-> new_play, notice |-> ""]
        ELSE IF lower(raw) \in {lower(p) : p \in Range(plays)}
        THEN [plays |-> plays, new_play |-> new_play, notice |-> "Play already exists."]
        ELSE [plays |-> Append(plays, raw), new_play |-> <<>>, notice |-> ""]

\* Sidebar: the ADD NEW PLAY button.
ClickAddPlay ==
    /\ plays' = add_play.plays
    /\ new_play' = add_play.new_play
    /\ notice' = add_play.notice
    /\ UNCHANGED <<log, selected_play, selected_player, opponent, game_date, quarter,
                   players, new_player_name, player_image>>
    /\ new_player_image' = player_image'
    /\ trail' = Idle
    /\ explicit_ts' = Absent
    /\ Render

\* Sidebar: the Player Name text input.
TypePlayerName(s) ==
    /\ s # new_player_name
    /\ new_player_name' = s
    /\ UNCHANGED <<plays, log, selected_play, selected_player, opponent, game_date,
                   quarter, new_play, players, player_image>>
    /\ Quiet
    /\ Render

\* Sidebar: the Upload Player Picture file uploader (f = NoFile removes the file).
UploadPlayerImage(f) ==
    /\ f # player_image
    /\ player_image' = f
    /\ UNCHANGED <<plays, log, selected_play, selected_player, opponent, game_date,
                   quarter, new_play, players, new_player_name>>
    /\ Quiet
    /\ Render

\* add_player(): reads the name and the file the run has just copied from the
\* uploader; what it leaves in players and the two inputs, and its warning.
add_player ==
    IF new_player_name = <<>> \/ player_image = NoFile
    THEN [players |-> players, new_player_name |-> new_player_name,
          new_player_image |-> player_image,
          notice |-> "Please provide both name and picture."]
    ELSE [players |-> Append(players, [name |-> strip(new_player_name),
                                       image_bytes |-> player_image.bytes]),
          new_player_name |-> <<>>,
          new_player_image |-> NoFile,
          notice |-> ""]

\* Sidebar: the ADD NEW PLAYER button.
ClickAddPlayer ==
    /\ players' = add_player.players
    /\ new_player_name' = add_player.new_player_name
    /\ new_player_image' = add_player.new_player_image
    /\ notice' = add_player.notice
    /\ UNCHANGED <<plays, log, selected_play, selected_player, opponent, game_date,
                   quarter, new_play, player_image>>
    /\ trail' = Idle
    /\ explicit_ts' = Absent
    /\ Render

\* A reset that clears the log alone.
ResetGame_keeps_selection ==
    /\ log' = <<>>
    /\ notice' = "Game state cleared."
    /\ UNCHANGED <<plays, selected_play, selected_player, opponent, game_date, quarter,
                   new_play, players, new_player_name, player_image>>
    /\ new_player_image' = player_image'
    /\ trail' = Idle
    /\ explicit_ts' = Absent
    /\ Render

\* Sidebar: the Reset Game button; it is handled before st.stop().
ResetGame ==
    /\ log' = <<>>
    /\ selected_play' = None
    /\ selected_player' = None
    /\ notice' = "Game state cleared."
    /\ UNCHANGED <<plays, opponent, game_date, quarter, new_play, players,
                   new_player_name, player_image>>
    /\ new_player_image' = player_image'
    /\ trail' = Idle
    /\ explicit_ts' = Absent
    /\ Render

\* Main: button idx of the player grid.
SelectPlayer(idx) ==
    /\ ready_to_tag
    /\ idx \in 1..Len(players)
    /\ selected_player' = players[idx].name
    /\ UNCHANGED <<plays, log, selected_play, opponent, game_date, quarter, new_play,
                   players, new_player_name, player_image>>
    /\ Quiet
    /\ Render

\* Main: button idx of the play grid, drawn once a player is selected.
SelectPlay(idx) ==
    /\ ready_to_tag
    /\ Truthy(selected_player)
    /\ idx \in 1..Len(plays)
    /\ selected_play' = plays[idx]
    /\ UNCHANGED <<plays, log, selected_player, opponent, game_date, quarter, new_play,
                   players, new_player_name, player_image>>
    /\ Quiet
    /\ Render

\* Main: one of the buttons Made 2, Made 3, Missed 2, Missed 3, Foul.  The
\* caller may want the event stamped with a time of its own (explicit);
\* add_log(play, result) has no parameter to receive it.
TagResult(result, now, explicit) ==
    /\ TaggingShown
    /\ result \in {"Made 2", "Made 3", "Missed 2", "Missed 3", "Foul"}
    /\ log' = add_log(selected_play, result, now)
    /\ notice' = ""
    /\ trail' = [op |-> "tag", log0 |-> log]
    /\ explicit_ts' = explicit
    /\ UNCHANGED <<plays, selected_play, selected_player, opponent, game_date, quarter,
                   new_play, players, new_player_name, player_image>>
    /\ new_player_image' = player_image'
    /\ Render

\* log.pop(0): the oldest event goes instead of the newest.
undo_last_first ==
    IF log # <<>>
    THEN [log |-> Tail(log), notice |-> "Last tag removed."]
    ELSE [log |-> log, notice |-> "No tags to undo."]

\* log.pop() without the test for an empty log: the run dies of an IndexError.
undo_last_unguarded ==
    IF log # <<>>
    THEN [log |-> SubSeq(log, 1, Len(log) - 1), notice |-> "Last tag removed."]
    ELSE [log |-> log, notice |-> "IndexError: pop from empty list"]

\* The Undo Last handler: log.pop() and a toast, or the toast alone.
undo_last ==
    IF log # <<>>
    THEN [log |-> SubSeq(log, 1, Len(log) - 1), notice |-> "Last tag removed."]
    ELSE [log |-> log, notice |-> "No tags to undo."]

\* Main: the Undo Last button, drawn beside the result buttons.
UndoLast ==
    /\ TaggingShown
    /\ log' = undo_last.log
    /\ notice' = undo_last.notice
    /\ trail' = IF trail.op = "tag" THEN [op |-> "undo", log0 |-> trail.log0] ELSE Idle
    /\ explicit_ts' = Absent
    /\ UNCHANGED <<plays, selected_play, selected_player, opponent, game_date, quarter,
                   new_play, players, new_player_name, player_image>>
    /\ new_player_image' = player_image'
    /\ Render

-----------------------------------------------------------------------------
(* The session from its start: every widget, small inputs *)

Opponents == {"", "Acadia"}
GameDates == {<<2024, 1, 5>>, <<2024, 11, 23>>}
Quarters == {"", "OT"}
\* "", " a", "A"
PlayNames == {<<>>, <<32, 97>>, <<65>>}
\* "", " ", "Ann"
PlayerNames == {<<>>, <<32>>, <<65, 110, 110>>}
Files == {[name |-> "ann.png", bytes |-> "PNG:ann"]}
Results == {"Made 2", "Made 3", "Missed 2", "Missed 3", "Foul"}
SessionResults == {"Made 3", "Foul"}
Tipoff == [date |-> <<2024, 1, 5>>, hh |-> 19, mm |-> 5, ss |-> 9, us |-> 0]

Init == \E today \in GameDates : init_state(today)

Next ==
    \/ \E v \in Opponents : SetOpponent(v)
    \/ \E d \in GameDates : SetGameDate(d)
    \/ \E q \in Quarters : SetQuarter(q)
    \/ \E s \in PlayNames : TypeNewPlay(s)
    \/ ClickAddPlay
    \/ \E s \in PlayerNames : TypePlayerName(s)
    \/ \E f \in Files \cup {NoFile} : UploadPlayerImage(f)
    \/ Len(players) < MaxPlayers /\ ClickAddPlayer
    \/ ResetGame
    \/ \E idx \in 1..Len(players) : SelectPlayer(idx)
    \/ \E idx \in 1..Len(plays) : SelectPlay(idx)
    \/ \E result \in SessionResults : Len(log) < MaxLog /\ TagResult(result, Tipoff, Absent)
    \/ UndoLast

Spec == Init /\ [][Next]_vars

-----------------------------------------------------------------------------
(* Tagging in a session already set up: three plays, every result *)

\* "B", "a", "c"
Playbook == << <<66>>, <<97>>, <<99>> >>
Roster == << [name |-> <<65, 110, 110>>, image_bytes |-> "PNG:ann"] >>

\* The state after the sidebar has been filled in: opponent, date and quarter
\* set, the plays of book and the players of roster added, nothing selected.
SetUp(book, roster) ==
    /\ plays = book
    /\ log = <<>>
    /\ selected_play = None
    /\ selected_player = None
    /\ opponent = "Acadia"
    /\ game_date = <<2024, 1, 5>>
    /\ quarter = "1"
    /\ new_play = <<>>
    /\ players = roster
    /\ new_player_name = <<>>
    /\ new_player_image = NoFile
    /\ player_image = NoFile
    /\ notice = ""
    /\ metrics_df = <<>>
    /\ trail = Idle
    /\ explicit_ts = Absent

InitMetrics == SetUp(Playbook, Roster)

NextMetrics ==
    \/ \E idx \in 1..Len(players) : SelectPlayer(idx)
    \/ \E idx \in 1..Len(plays) : SelectPlay(idx)
    \/ \E result \in Results :
            Len(log) < MaxMetricsLog /\ TagResult(result, Tipoff, Absent)
    \/ UndoLast
    \/ ResetGame

SpecMetrics == InitMetrics /\ [][NextMetrics]_vars

-----------------------------------------------------------------------------
(* Tagging against the clock, by a caller that may supply a time of its own *)

Clock == {[date |-> <<2024, 1, 5>>, hh |-> 19, mm |-> 5, ss |-> 9, us |-> 0],
          [date |-> <<2024, 1, 5>>, hh |-> 19, mm |-> 5, ss |-> 9, us |-> 500000],
          [date |-> <<2024, 1, 5>>, hh |-> 19, mm |-> 5, ss |-> 10, us |-> 0]}
ExplicitTimestamps == {Absent, "2024-01-05 19:05:09", "2023-12-31 23:59:59"}

InitClock == SetUp(<< <<97>> >>, Roster)

NextClock ==
    \/ \E idx \in 1..Len(players) : SelectPlayer(idx)
    \/ \E idx \in 1..Len(plays) : SelectPlay(idx)
    \/ \E result \in Results, now \in Clock, explicit \in ExplicitTimestamps :
            Len(log) < MaxClockLog /\ TagResult(result, now, explicit)
    \/ UndoLast
    \/ ResetGame

SpecClock == InitClock /\ [][NextClock]_vars

-----------------------------------------------------------------------------
(* Properties of compute_metrics, checked under SpecMetrics *)

\* The table compute_metrics returns for the current log.
Table == compute_metrics(log)

EventsOf(play) == {i \in 1..Len(log) : log[i].play = play}

\* The scoring rule as the specification states it.
Scored(result) == IF result = "Made 2" THEN 2 ELSE IF result = "Made 3" THEN 3 ELSE 0

RECURSIVE SumScored(_)
SumScored(I) ==
    IF I = {} THEN 0
    ELSE LET i == CHOOSE x \in I : TRUE
         IN  Scored(log[i].result) + SumScored(I \ {i})

\* The place in the log where a play label first occurs.
FirstSeen(play) == CHOOSE i \in EventsOf(play) : \A j \in EventsOf(play) : i <= j

\* C1: whenever the log is not empty, the Attempts of the rows of the table add
\* up to the number of events in the log: every event, a foul too, is one
\* attempt of its play.
C1_AttemptsSumToLogLength ==
    log # <<>> => SumAttempts(Table) = Len(log)

C1_Witness ==
    LET T == Table
    IN  /\ Len(log) >= 3
        /\ Len(T) >= 2
        /\ \E i \in 1..Len(log) : log[i].result = "Foul"
        /\ \E i \in 1..Len(log) : log[i].result # "Foul"
        /\ metrics_df = T

\* C2: every row's Points is the sum, over the events of the row's play, of the
\* points the scoring rule gives their results (Made 2 -> 2, Made 3 -> 3,
\* anything else -> 0); the points stored on an event agree with the rule.
C2_PointsAgreeWithLookup ==
    LET T == Table
    IN  /\ \A i \in 1..Len(log) : log[i].points = Scored(log[i].result)
        /\ \A k \in 1..Len(T) : T[k].Points = SumScored(EventsOf(T[k].Play))

C2_Witness ==
    LET T == Table
    IN  \E k \in 1..Len(T) :
            /\ T[k].Points = 5
            /\ T[k].Attempts = 3
            /\ \E i \in EventsOf(T[k].Play) : log[i].result = "Missed 3"

\* Rows r and e tie: equal PPP and equal Attempts.
Tie(r, e) == r.Points * e.Attempts = e.Points * r.Attempts /\ r.Attempts = e.Attempts

\* Row r has the higher PPP, or the same PPP and more Attempts.
Outranks(r, e) ==
    \/ r.Points * e.Attempts > e.Points * r.Attempts
    \/ r.Points * e.Attempts = e.Points * r.Attempts /\ r.Attempts > e.Attempts

\* C3, as claimed: rows are in descending order of PPP, then of Attempts, and
\* rows that tie on both are in the order in which their plays first occur in
\* the log.
C3_TiesInFirstSeenOrder ==
    LET T == Table
    IN  \A i, j \in 1..Len(T) :
            i < j => \/ Outranks(T[i], T[j])
                     \/ /\ Tie(T[i], T[j])
                        /\ FirstSeen(T[i].Play) < FirstSeen(T[j].Play)

\* C3, amended: rows are in descending order of PPP, then of Attempts, and
\* rows that tie on both are in ascending order of their play labels (the
\* order of Python strings), whatever the order of the log.
C3_TiesInPlayLabelOrder ==
    LET T == Table
    IN  \A i, j \in 1..Len(T) :
            i < j => \/ Outranks(T[i], T[j])
                     \/ /\ Tie(T[i], T[j])
                        /\ StrLess(T[i].Play, T[j].Play)

C3_Witness ==
    LET T == Table
    IN  /\ Len(T) = 3
        /\ Outranks(T[1], T[2])
        /\ Tie(T[2], T[3])
        /\ FirstSeen(T[3].Play) < FirstSeen(T[2].Play)
        /\ metrics_df = T

\* C4: a row's Success Rate is made shots over shot attempts of its play
\* (Made 2, Made 3 over Made 2, Made 3, Missed 2, Missed 3) and exactly 0 when
\* the play has no shot attempt; a play with only fouls has Attempts > 0,
\* Points = 0, PPP = 0 and Success Rate = 0; no value is undefined.
C4_SuccessRate ==
    LET T == Table
    IN  \A k \in 1..Len(T) :
        LET row   == T[k]
            made  == Cardinality({i \in EventsOf(row.Play) :
                                    log[i].result \in {"Made 2", "Made 3"}})
            shots == Cardinality({i \in EventsOf(row.Play) :
                                    log[i].result \in {"Made 2", "Made 3",
                                                       "Missed 2", "Missed 3"}})
        IN  /\ row.SuccessRate.den # 0
            /\ row.PPP.den # 0
            /\ row.SuccessRate.num * shots = made * row.SuccessRate.den
            /\ shots = 0 => row.SuccessRate.num = 0
            /\ (\A i \in EventsOf(row.Play) : log[i].result = "Foul")
                  => /\ row.Attempts > 0
                     /\ row.Points = 0
                     /\ row.PPP.num = 0
                     /\ row.SuccessRate.num = 0

C4_Witness ==
    LET T == Table
    IN  /\ \E k \in 1..Len(T) :
              /\ \A i \in EventsOf(T[k].Play) : log[i].result = "Foul"
              /\ T[k].Attempts = 2
        /\ \E k \in 1..Len(T) : T[k].SuccessRate = [num |-> 1, den |-> 1]

-----------------------------------------------------------------------------
(* Properties of the session, checked under Spec *)

IsPrefix(s, t) == Len(s) <= Len(t) /\ SubSeq(t, 1, Len(s)) = s

\* C5: a tag immediately followed by Undo Last leaves the log exactly as it
\* was before the tag, length and events; and right after a tag the Undo Last
\* button is there to be clicked.
C5_UndoRestoresLog ==
    /\ trail.op = "tag" => TaggingShown /\ Len(log) = Len(trail.log0) + 1
    /\ trail.op = "undo" => log = trail.log0 /\ Len(log) = Len(trail.log0)

C5_Witness ==
    /\ trail.op = "undo"
    /\ notice = "Last tag removed."
    /\ Len(log) >= 1

C7_ResetGameFrame ==
    [][notice' = "Game state cleared."
         => /\ log' = <<>>
            /\ selected_player' = None
            /\ selected_play' = None
            /\ UNCHANGED <<plays, players, opponent, game_date, quarter,
                           new_play, new_player_name, player_image>>]_vars

C7_Witness ==
    /\ notice = "Game state cleared."
    /\ ~ready_to_tag
    /\ plays # <<>>
    /\ players # <<>>
    /\ log = <<>>
    /\ selected_player = None
    /\ selected_play = None

\* C8: whatever the run, the log either stays as it is, gains one event at its
\* end, loses its last event, or is emptied by Reset Game; the events that
\* stay keep their fields and their order.
C8_LogOnlyGrowsShrinksAtEnd ==
    [][\/ log' = log
       \/ Len(log') = Len(log) + 1 /\ SubSeq(log', 1, Len(log)) = log
       \/ log # <<>> /\ log' = SubSeq(log, 1, Len(log) - 1)
       \/ log' = <<>> /\ notice' = "Game state cleared."]_vars

C8_Witness ==
    /\ Len(log) = 2
    /\ log[1] # log[2]
    /\ log[1].opponent # opponent
    /\ log[1].quarter # quarter
    /\ log[1].game_date # DateStr(game_date)
    /\ log[2].game_date = DateStr(game_date)

\* C10: every event in the log has a play of the playbook, a non-empty player
\* who is in the roster, and a non-empty opponent and quarter; an event is
\* appended only while opponent, date and quarter are set and a player and a
\* play are selected; the playbook and the roster never shrink.
C10_EventsReferToPlaybookAndRoster ==
    /\ [](\A i \in 1..Len(log) :
            /\ log[i].play \in Range(plays)
            /\ log[i].player # None
            /\ log[i].player # <<>>
            /\ log[i].player \in {players[k].name : k \in 1..Len(players)}
            /\ log[i].opponent # ""
            /\ log[i].quarter # "")
    /\ [][Len(log') > Len(log)
            => /\ opponent # "" /\ game_date # None /\ quarter # ""
               /\ selected_player \notin {None, <<>>}
               /\ selected_play \notin {None, <<>>}]_vars
    /\ [][IsPrefix(plays, plays') /\ IsPrefix(players, players')]_vars

C10_Witness ==
    /\ Len(log) = 2
    /\ \E k \in 1..Len(players) : players[k].name = <<>>
    /\ selected_player = <<>>
    /\ quarter = ""

-----------------------------------------------------------------------------
(* The timestamp of an appended event, checked under SpecClock *)

\* C9: an event appended with an explicit timestamp carries that timestamp
\* verbatim; the current time is used only when none is supplied.
C9_ExplicitTimestampVerbatim ==
    (trail.op = "tag" /\ explicit_ts # Absent)
        => log[Len(log)].timestamp = explicit_ts

====
